---- MODULE Spec2Model ----
(***************************************************************************)
(* Transaction-scoped object cache of the ORM (src/src/transaction.rs)     *)
(* over the storage transaction interface (src/src/storage.rs).            *)
(*                                                                         *)
(* Two object types are modelled: "A" has one column, "B" is a unit        *)
(* struct (no columns).  Each type has its own table, and each table       *)
(* assigns its AUTOINCREMENT identifiers independently.                    *)
(***************************************************************************)
EXTENDS Integers, Sequences, FiniteSets, Bags, TLC

\* ------------------------------------------------------------------ bounds
MaxId == 1         \* largest identifier a table hands out
MaxVal == 1        \* attribute values are 0..MaxVal
MaxHandles == 2    \* Tx handles alive at once
MaxGuards == 2     \* Ref / RefMut guards alive at once
MaxTx == 2         \* transactions opened one after the other

\* The limits a behaviour is explored under.  Narrow: one identifier per
\* table, several handles, guards and transactions.  Wide: one identifier
\* more per table, one handle and one guard at a time, one transaction less.
Narrow == [ids |-> MaxId, handles |-> MaxHandles, guards |-> MaxGuards, txs |-> MaxTx]
Wide == [ids |-> MaxId + 1, handles |-> MaxHandles - 1, guards |-> MaxGuards - 1,
         txs |-> MaxTx - 1]

Types == {"A", "B"}
Vals == 0..MaxVal
ErrKinds == {"Storage", "LockConflict"}

\* ------------------------------------------------------------ object model
\* Schema.fields of the derived types: A { v: i64 }, B (unit struct)
NumFields(t) == IF t = "A" THEN 1 ELSE 0

Obj(t, v) == [ty |-> t, val |-> IF NumFields(t) = 0 THEN 0 ELSE v]

\* derive(Object): to_row lists the attributes in schema order
to_row(obj) == IF NumFields(obj.ty) = 0 THEN <<>> ELSE <<obj.val>>

\* derive(Object): from_row destructures a row of exactly fields_count values
from_row(t, row) == [ty |-> t, val |-> IF NumFields(t) = 0 THEN 0 ELSE row[1]]

\* Store::get_schema: the schema of the value's own (dynamic) type
get_schema(obj) == obj.ty

\* --------------------------------------------------------- storage backend
\* One database image: which tables exist, their rows, their AUTOINCREMENT
\* sequence.
EmptyRows == [i \in {} |-> <<>>]
EmptyDb == [exists |-> [t \in Types |-> FALSE],
            rows   |-> [t \in Types |-> EmptyRows],
            seq    |-> [t \in Types |-> 0]]

table_exists(d, t) == d.exists[t]

create_table(d, t) == [d EXCEPT !.exists[t] = TRUE]

\* the identifier insert_row returns (last_insert_rowid)
insert_id(d, t) == d.seq[t] + 1

insert_row(d, t, row) ==
    [d EXCEPT !.rows[t] = (insert_id(d, t) :> row) @@ @,
              !.seq[t] = insert_id(d, t)]

\* UPDATE ... WHERE id = ?: nothing to do for a schema without fields, and no
\* row is touched when the identifier matches none
update_row(d, id, t, row) ==
    IF NumFields(t) = 0 \/ id \notin DOMAIN d.rows[t]
    THEN d
    ELSE [d EXCEPT !.rows[t][id] = row]

select_found(d, id, t) == d.exists[t] /\ id \in DOMAIN d.rows[t]

select_row(d, id, t) == d.rows[t][id]

delete_row(d, id, t) ==
    [d EXCEPT !.rows[t] = [i \in (DOMAIN @) \ {id} |-> @[i]]]

\* a call made on the storage interface and whether it returned Ok
Call(op, t, id, row, ok) == [op |-> op, ty |-> t, id |-> id, row |-> row, ok |-> ok]

\* -------------------------------------------------------------------- state
VARIABLES
    committed,  \* database image visible to a new transaction
    db,         \* image seen by the open storage transaction
    status,     \* "none" | "active" | "panicked"
    txCount,    \* transactions opened so far
    heap,       \* allocated CacheValues: entry -> [state, obj]
    cache,      \* Transaction.cache: ObjectId -> entry
    handles,    \* bag of live Tx handles [id, data, ty]
    guards,     \* bag of live Ref/RefMut guards [h, mut]
    calls,      \* storage-interface calls made by the last operation
    last        \* the last operation and its result

vars == <<committed, db, status, txCount, heap, cache, handles,
          guards, calls, last>>

Handle(id, e, t) == [id |-> id, data |-> e, ty |-> t]

\* the last operation: its name, the type, identifier and entry it was about
\* (where a property needs them) and its result
Last(op, t, id, e, res) == [op |-> op, ty |-> t, id |-> id, e |-> e, res |-> res]

\* CacheValue::new
NewCacheValue_Modified(obj) == [state |-> "Modified", obj |-> obj]
NewCacheValue(obj) == [state |-> "Clean", obj |-> obj]

\* RefCell borrow flag of an entry, as the guards alive on it
Writer_never(e) == FALSE
Writer(e) == \E g \in BagToSet(guards) : g.h.data = e /\ g.mut
Borrowed_never(e) == FALSE
Borrowed(e) == \E g \in BagToSet(guards) : g.h.data = e

EmptyHeap == [e \in {} |-> NewCacheValue(Obj("A", 0))]
EmptyCache == [i \in {} |-> 0]

\* Rc::new: an address no live entry has
NewEntry(hp) == CHOOSE e \in 1..(Cardinality(DOMAIN hp) + 1) :
                    e \notin DOMAIN hp /\ \A f \in 1..(e - 1) : f \in DOMAIN hp

\* entries kept alive by the cache or by a handle (Rc strong counts > 0)
Live(c, hs) == {c[i] : i \in DOMAIN c} \cup {h.data : h \in BagToSet(hs)}

Collect(hp, c, hs) == [e \in (DOMAIN hp) \cap Live(c, hs) |-> hp[e]]

\* databases a first transaction may find: empty, or one A row committed
InitDbs == {EmptyDb, insert_row(create_table(EmptyDb, "A"), "A", <<0>>)}

Init ==
    /\ committed \in InitDbs
    /\ db = committed
    /\ status = "none"
    /\ txCount = 0
    /\ heap = EmptyHeap
    /\ cache = EmptyCache
    /\ handles = EmptyBag
    /\ guards = EmptyBag
    /\ calls = <<>>
    /\ last = Last("init", "-", 0, 0, "ok")

\* Transaction::new on a freshly begun storage transaction
Begin(lim) ==
    /\ status = "none"
    /\ txCount < lim.txs
    /\ status' = "active"
    /\ txCount' = txCount + 1
    /\ db' = committed
    /\ heap' = EmptyHeap
    /\ cache' = EmptyCache
    /\ handles' = EmptyBag
    /\ guards' = EmptyBag
    /\ calls' = <<>>
    /\ last' = Last("begin", "-", 0, 0, "ok")
    /\ UNCHANGED committed

\* Transaction::ensure_table_exists: every way it can go, as
\* [ok, db, calls, err]
EnsureOutcomes_createAlways(d, t) ==
    {[ok |-> TRUE, db |-> IF table_exists(d, t) THEN d ELSE create_table(d, t),
      calls |-> <<Call("create_table", t, 0, <<>>, TRUE)>>, err |-> "-"]}
EnsureOutcomes(d, t) ==
    LET te(ok) == Call("table_exists", t, 0, <<>>, ok)
        ct(ok) == Call("create_table", t, 0, <<>>, ok)
    IN  {[ok |-> FALSE, db |-> d, calls |-> <<te(FALSE)>>, err |-> k] : k \in ErrKinds}
        \cup
        (IF table_exists(d, t)
         THEN {[ok |-> TRUE, db |-> d, calls |-> <<te(TRUE)>>, err |-> "-"]}
         ELSE {[ok |-> FALSE, db |-> d, calls |-> <<te(TRUE), ct(FALSE)>>, err |-> k] : k \in ErrKinds}
              \cup
              {[ok |-> TRUE, db |-> create_table(d, t),
                calls |-> <<te(TRUE), ct(TRUE)>>, err |-> "-"]})

\* HashMap::entry(id): Occupied or Vacant
Occupied_never(c, id) == FALSE
Occupied(c, id) == id \in DOMAIN c

\* HashMap::insert / VacantEntry::insert: the key now maps to the new entry
CacheInsert(c, id, e) == (id :> e) @@ c

\* the `?` on a failed storage call returns before the cache is touched:
\* the map the operation leaves behind
OnError_cleared(c) == EmptyCache
OnError(c) == c

\* Transaction::create::<T>(obj)
Create(t, v, lim) ==
    /\ status = "active"
    /\ BagCardinality(handles) < lim.handles
    /\ insert_id(db, t) <= lim.ids
    /\ UNCHANGED <<committed, status, txCount, guards>>
    /\ \E en \in EnsureOutcomes(db, t) :
        \/ /\ ~en.ok
           /\ db' = en.db
           /\ calls' = en.calls
           /\ last' = Last("create", t, 0, 0, en.err)
           /\ cache' = OnError(cache) /\ UNCHANGED <<heap, handles>>
        \/ /\ en.ok
           /\ \E k \in ErrKinds :
                /\ db' = en.db
                /\ calls' = Append(en.calls, Call("insert_row", t, 0, to_row(Obj(t, v)), FALSE))
                /\ last' = Last("create", t, 0, 0, k)
           /\ cache' = OnError(cache) /\ UNCHANGED <<heap, handles>>
        \/ /\ en.ok
           /\ LET id == insert_id(en.db, t)
                  obj == Obj(t, v)
                  e == NewEntry(heap)
                  h == Handle(id, e, t)
              IN  /\ db' = insert_row(en.db, t, to_row(obj))
                  /\ calls' = Append(en.calls, Call("insert_row", t, id, to_row(obj), TRUE))
                  /\ cache' = CacheInsert(cache, id, e)
                  /\ handles' = handles (+) SetToBag({h})
                  /\ heap' = Collect((e :> NewCacheValue(obj)) @@ heap, cache', handles')
                  /\ last' = Last("create", t, id, e, "ok")

\* Transaction::get::<T>(id)
Get(t, id, lim) ==
    /\ status = "active"
    /\ UNCHANGED <<committed, txCount, guards>>
    /\ IF Occupied(cache, id)
       THEN LET e == cache[id] IN
            IF Writer(e)
            THEN \* e.borrow() on a mutably borrowed RefCell
                 /\ status' = "panicked"
                 /\ calls' = <<>>
                 /\ last' = Last("get", t, id, 0, "panic")
                 /\ UNCHANGED <<db, heap, cache, handles>>
            ELSE IF heap[e].state = "Removed"
            THEN /\ calls' = <<>>
                 /\ last' = Last("get", t, id, 0, "NotFound")
                 /\ UNCHANGED <<db, status, heap, cache, handles>>
            ELSE /\ BagCardinality(handles) < lim.handles
                 /\ handles' = handles (+) SetToBag({Handle(id, e, t)})
                 /\ calls' = <<>>
                 /\ last' = Last("get", t, id, e, "ok")
                 /\ UNCHANGED <<db, status, heap, cache>>
       ELSE /\ UNCHANGED status
            /\ \E en \in EnsureOutcomes(db, t) :
                \/ /\ ~en.ok
                   /\ db' = en.db
                   /\ calls' = en.calls
                   /\ last' = Last("get", t, id, 0, en.err)
                   /\ cache' = OnError(cache) /\ UNCHANGED <<heap, handles>>
                \/ /\ en.ok
                   /\ \E k \in ErrKinds :
                        /\ db' = en.db
                        /\ calls' = Append(en.calls, Call("select_row", t, id, <<>>, FALSE))
                        /\ last' = Last("get", t, id, 0, k)
                   /\ cache' = OnError(cache) /\ UNCHANGED <<heap, handles>>
                \/ /\ en.ok
                   /\ ~select_found(en.db, id, t)
                   /\ db' = en.db
                   /\ calls' = Append(en.calls, Call("select_row", t, id, <<>>, FALSE))
                   /\ last' = Last("get", t, id, 0, "NotFound")
                   /\ cache' = OnError(cache) /\ UNCHANGED <<heap, handles>>
                \/ /\ en.ok
                   /\ select_found(en.db, id, t)
                   /\ BagCardinality(handles) < lim.handles
                   /\ LET row == select_row(en.db, id, t)
                          e == NewEntry(heap)
                          h == Handle(id, e, t)
                      IN  /\ db' = en.db
                          /\ calls' = Append(en.calls, Call("select_row", t, id, row, TRUE))
                          /\ cache' = CacheInsert(cache, id, e)
                          /\ handles' = handles (+) SetToBag({h})
                          /\ heap' = (e :> NewCacheValue(from_row(t, row))) @@ heap
                          /\ last' = Last("get", t, id, e, "ok")

\* ------------------------------------------------------------- Tx handles
NoGuardsOf(h) == \A g \in BagToSet(guards) : g.h # h

\* a handle value can be moved or dropped only while nothing borrows from it:
\* some copy of it carries no Ref/RefMut
Movable(h) == BagIn(h, handles) /\ (CopiesIn(h, handles) > 1 \/ NoGuardsOf(h))

Panic(op, h) ==
    /\ status' = "panicked"
    /\ last' = Last(op, h.ty, h.id, h.data, "panic")

\* Tx::id
TxId(h) ==
    /\ status = "active"
    /\ BagIn(h, handles)
    /\ last' = Last("id", h.ty, h.id, h.data, "ok")
    /\ calls' = <<>>
    /\ UNCHANGED <<committed, db, status, txCount, heap, cache, handles, guards>>

\* Tx::state: self.data.borrow().state
TxState(h) ==
    /\ status = "active"
    /\ BagIn(h, handles)
    /\ calls' = <<>>
    /\ UNCHANGED <<committed, db, txCount, heap, cache, handles, guards>>
    /\ IF Writer(h.data)
       THEN Panic("state", h)
       ELSE /\ last' = Last("state", h.ty, h.id, h.data, heap[h.data].state)
            /\ UNCHANGED status

\* #[derive(Clone)] on Tx
TxClone(h, lim) ==
    /\ status = "active"
    /\ BagIn(h, handles)
    /\ BagCardinality(handles) < lim.handles
    /\ handles' = handles (+) SetToBag({h})
    /\ calls' = <<>>
    /\ last' = Last("clone", "-", 0, 0, "ok")
    /\ UNCHANGED <<committed, db, status, txCount, heap, cache, guards>>

\* a handle goes out of scope: its Rc is released
TxDrop(h) ==
    /\ status = "active"
    /\ Movable(h)
    /\ handles' = handles (-) SetToBag({h})
    /\ heap' = Collect(heap, cache, handles')
    /\ calls' = <<>>
    /\ last' = Last("drop", "-", 0, 0, "ok")
    /\ UNCHANGED <<committed, db, status, txCount, cache, guards>>

\* Tx::panic_if_removed passes: the RefCell can be read and is not Removed
NotRemoved_unchecked(h) == ~Writer(h.data)
NotRemoved(h) == ~Writer(h.data) /\ heap[h.data].state # "Removed"

\* as_any().downcast_ref::<T>() is Some
Downcast(h) == heap[h.data].obj.ty = h.ty

\* Tx::borrow
TxBorrow(h, lim) ==
    /\ status = "active"
    /\ BagIn(h, handles)
    /\ calls' = <<>>
    /\ UNCHANGED <<committed, db, txCount, heap, cache, handles>>
    /\ IF NotRemoved(h) /\ Downcast(h)
       THEN /\ BagCardinality(guards) < lim.guards
            /\ guards' = guards (+) SetToBag({[h |-> h, mut |-> FALSE]})
            /\ last' = Last("borrow", h.ty, h.id, h.data, "ok")
            /\ UNCHANGED status
       ELSE /\ Panic("borrow", h)
            /\ UNCHANGED guards

\* data.state = ObjectState::Modified
AfterBorrowMut_keep(cv) == cv
AfterBorrowMut(cv) == [cv EXCEPT !.state = "Modified"]

\* Tx::borrow_mut
TxBorrowMut(h, lim) ==
    /\ status = "active"
    /\ BagIn(h, handles)
    /\ calls' = <<>>
    /\ UNCHANGED <<committed, db, txCount, cache, handles>>
    /\ IF ~NotRemoved(h) \/ Borrowed(h.data)
       THEN \* panic_if_removed or RefCell::borrow_mut panics
            /\ Panic("borrow_mut", h)
            /\ UNCHANGED <<heap, guards>>
       ELSE /\ heap' = [heap EXCEPT ![h.data] = AfterBorrowMut(@)]
            /\ IF Downcast(h)
               THEN /\ BagCardinality(guards) < lim.guards
                    /\ guards' = guards (+) SetToBag({[h |-> h, mut |-> TRUE]})
                    /\ last' = Last("borrow_mut", h.ty, h.id, h.data, "ok")
                    /\ UNCHANGED status
               ELSE \* downcast_mut().unwrap() panics after the tag was set
                    /\ Panic("borrow_mut", h)
                    /\ UNCHANGED guards

\* the caller assigns through the RefMut it holds
Write(g, v) ==
    /\ status = "active"
    /\ BagIn(g, guards)
    /\ g.mut
    /\ NumFields(g.h.ty) > 0
    /\ heap[g.h.data].obj.val # v
    /\ heap' = [heap EXCEPT ![g.h.data].obj.val = v]
    /\ calls' = <<>>
    /\ last' = Last("write", "-", 0, 0, "ok")
    /\ UNCHANGED <<committed, db, status, txCount, cache, handles, guards>>

\* a Ref or RefMut is dropped
Release(g) ==
    /\ status = "active"
    /\ BagIn(g, guards)
    /\ guards' = guards (-) SetToBag({g})
    /\ calls' = <<>>
    /\ last' = Last("release", "-", 0, 0, "ok")
    /\ UNCHANGED <<committed, db, status, txCount, heap, cache, handles>>

\* data.state = ObjectState::Removed
AfterDelete_keepModified(cv) == IF cv.state = "Modified" THEN cv ELSE [cv EXCEPT !.state = "Removed"]
AfterDelete(cv) == [cv EXCEPT !.state = "Removed"]

\* the storage calls of Tx::delete: none, the row goes at commit
DeleteFlush_eager(h) == <<Call("delete_row", h.ty, h.id, <<>>, TRUE)>>
DeleteFlush(h) == <<>>

\* Tx::delete(self)
TxDelete(h) ==
    /\ status = "active"
    /\ Movable(h)
    /\ calls' = DeleteFlush(h)
    /\ UNCHANGED <<committed, db, txCount, cache, guards>>
    /\ IF Borrowed(h.data)
       THEN \* try_borrow_mut fails
            /\ Panic("delete", h)
            /\ UNCHANGED <<heap, handles>>
       ELSE /\ handles' = handles (-) SetToBag({h})
            /\ heap' = Collect([heap EXCEPT ![h.data] = AfterDelete(@)], cache, handles')
            /\ last' = Last("delete", h.ty, h.id, h.data, "ok")
            /\ UNCHANGED status

\* ------------------------------------------------------ commit / rollback
\* one arm of the match in Transaction::commit: the call an entry needs
FlushCall_cleanToo(id, cv) ==
    IF cv.state = "Removed"
    THEN <<Call("delete_row", get_schema(cv.obj), id, <<>>, TRUE)>>
    ELSE <<Call("update_row", get_schema(cv.obj), id, to_row(cv.obj), TRUE)>>
FlushCall(id, cv) ==
    CASE cv.state = "Clean" -> <<>>
      [] cv.state = "Modified" ->
            <<Call("update_row", get_schema(cv.obj), id, to_row(cv.obj), TRUE)>>
      [] cv.state = "Removed" ->
            <<Call("delete_row", get_schema(cv.obj), id, <<>>, TRUE)>>

\* the loop of Transaction::commit over the cache in iteration order `order`
RECURSIVE FlushCalls(_, _, _, _)
FlushCalls(order, i, c, hp) ==
    IF i > Len(order) THEN <<>>
    ELSE FlushCall(order[i], hp[c[order[i]]]) \o FlushCalls(order, i + 1, c, hp)

\* HashMap::iter visits every key once, in an arbitrary order
Orders(S) == {f \in [1..Cardinality(S) -> S] : \A i, j \in DOMAIN f : f[i] = f[j] => i = j}

\* effect of a successful flush call on the storage transaction's image
Apply(d, c) ==
    CASE c.op = "update_row" -> update_row(d, c.id, c.ty, c.row)
      [] c.op = "delete_row" -> delete_row(d, c.id, c.ty)
      [] OTHER -> d

RECURSIVE ApplyAll(_, _)
ApplyAll(d, cs) == IF cs = <<>> THEN d ELSE ApplyAll(Apply(d, Head(cs)), Tail(cs))

CommitCall(ok) == Call("commit", "-", 0, <<>>, ok)

\* every way Transaction::commit can go for the flush calls `all`: the `?` on
\* a failing call returns at once, inner.commit() comes after the loop
CommitOutcomes_commitAnyway(all) ==
    {[calls |-> SubSeq(all, 1, k) \o <<[all[k + 1] EXCEPT !.ok = FALSE]>> \o <<CommitCall(TRUE)>>,
      res |-> e, done |-> TRUE, flushed |-> k] : k \in 0..(Len(all) - 1), e \in ErrKinds}
    \cup {[calls |-> all \o <<CommitCall(TRUE)>>, res |-> "ok", done |-> TRUE, flushed |-> Len(all)]}
CommitOutcomes(all) ==
    {[calls |-> SubSeq(all, 1, k) \o <<[all[k + 1] EXCEPT !.ok = FALSE]>>,
      res |-> e, done |-> FALSE, flushed |-> k] : k \in 0..(Len(all) - 1), e \in ErrKinds}
    \cup {[calls |-> all \o <<CommitCall(FALSE)>>, res |-> e, done |-> FALSE,
           flushed |-> Len(all)] : e \in ErrKinds}
    \cup {[calls |-> all \o <<CommitCall(TRUE)>>, res |-> "ok", done |-> TRUE, flushed |-> Len(all)]}

\* the transaction value is consumed: cache, entries and handles are gone
Closed ==
    /\ status' = "none"
    /\ heap' = EmptyHeap
    /\ cache' = EmptyCache
    /\ handles' = EmptyBag
    /\ guards' = EmptyBag
    /\ UNCHANGED txCount

\* Transaction::commit(self)
Commit ==
    /\ status = "active"
    /\ guards = EmptyBag
    /\ \E order \in Orders(DOMAIN cache) :
         \E out \in CommitOutcomes(FlushCalls(order, 1, cache, heap)) :
            /\ calls' = out.calls
            /\ last' = Last("commit", "-", 0, 0, out.res)
            /\ db' = ApplyAll(db, SubSeq(out.calls, 1, out.flushed))
            /\ committed' = IF out.done THEN db' ELSE committed
    /\ Closed

\* what ROLLBACK leaves as the committed image: c is the image before the
\* transaction, d the transaction's own
RollbackImage(c, d) == c

\* the write-back Transaction::rollback does before inner.rollback(): none
RollbackFlush_writeBack(c, hp) ==
    FlushCalls(CHOOSE o \in Orders(DOMAIN c) : TRUE, 1, c, hp)
RollbackFlush(c, hp) == <<>>

\* Transaction::rollback(self)
Rollback ==
    /\ status = "active"
    /\ guards = EmptyBag
    /\ \E r \in {"ok"} \cup ErrKinds :
         /\ calls' = RollbackFlush(cache, heap) \o <<Call("rollback", "-", 0, <<>>, r = "ok")>>
         /\ last' = Last("rollback", "-", 0, 0, r)
    /\ db' = ApplyAll(db, RollbackFlush(cache, heap))
    /\ committed' = RollbackImage(committed, db')
    /\ Closed

\* -------------------------------------------------------------- behaviours
ValsOf(t) == IF NumFields(t) = 0 THEN {0} ELSE Vals

Next ==
    \/ Begin(Narrow)
    \/ \E t \in Types : \E v \in ValsOf(t) : Create(t, v, Narrow)
    \/ \E t \in Types : \E id \in 1..Narrow.ids : Get(t, id, Narrow)
    \/ \E h \in BagToSet(handles) : TxId(h)
    \/ \E h \in BagToSet(handles) : TxState(h)
    \/ \E h \in BagToSet(handles) : TxClone(h, Narrow)
    \/ \E h \in BagToSet(handles) : TxDrop(h)
    \/ \E h \in BagToSet(handles) : TxBorrow(h, Narrow)
    \/ \E h \in BagToSet(handles) : TxBorrowMut(h, Narrow)
    \/ \E h \in BagToSet(handles) : TxDelete(h)
    \/ \E g \in BagToSet(guards) : \E v \in Vals : Write(g, v)
    \/ \E g \in BagToSet(guards) : Release(g)
    \/ Commit
    \/ Rollback

Spec == Init /\ [][Next]_vars

\* the same operations under the Wide limits; a handle is not cloned, as one
\* handle is alive at a time
NextWide ==
    \/ Begin(Wide)
    \/ \E t \in Types : \E v \in ValsOf(t) : Create(t, v, Wide)
    \/ \E t \in Types : \E id \in 1..Wide.ids : Get(t, id, Wide)
    \/ \E h \in BagToSet(handles) : TxId(h)
    \/ \E h \in BagToSet(handles) : TxState(h)
    \/ \E h \in BagToSet(handles) : TxDrop(h)
    \/ \E h \in BagToSet(handles) : TxBorrow(h, Wide)
    \/ \E h \in BagToSet(handles) : TxBorrowMut(h, Wide)
    \/ \E h \in BagToSet(handles) : TxDelete(h)
    \/ \E g \in BagToSet(guards) : \E v \in Vals : Write(g, v)
    \/ \E g \in BagToSet(guards) : Release(g)
    \/ Commit
    \/ Rollback

SpecWide == Init /\ [][NextWide]_vars

TypeOK ==
    /\ status \in {"none", "active", "panicked"}
    /\ txCount \in 0..MaxTx
    /\ \A i \in DOMAIN cache : cache[i] \in DOMAIN heap
    /\ \A h \in BagToSet(handles) : h.data \in DOMAIN heap
    /\ \A e \in DOMAIN heap : heap[e].state \in {"Clean", "Modified", "Removed"}

\* ------------------------------------------------------------- properties
IsFlush(c) == c.op \in {"update_row", "delete_row"}

\* how many of the calls cs satisfy: operation op on identifier id
NumCalls(cs, op, id) == Cardinality({i \in DOMAIN cs : cs[i].op = op /\ cs[i].id = id})

\* C1: commit flush completeness.  When commit() runs and every storage call
\* succeeds, each cache entry gets exactly one update_row with its
\* identifier, schema and value at commit time if it is Modified, exactly one
\* delete_row if it is Removed and no call if it is Clean, and no other
\* update_row or delete_row is issued.
C1_FlushComplete ==
    [][(last'.op = "commit" /\ last'.res = "ok") =>
        /\ \A id \in DOMAIN cache :
             LET cv == heap[cache[id]]
                 nUpd == NumCalls(calls', "update_row", id)
                 nDel == NumCalls(calls', "delete_row", id)
             IN  /\ cv.state = "Clean" => nUpd = 0 /\ nDel = 0
                 /\ cv.state = "Modified" =>
                      /\ nUpd = 1 /\ nDel = 0
                      /\ \E i \in DOMAIN calls' :
                           calls'[i] = [op |-> "update_row", ty |-> cv.obj.ty, id |-> id,
                                        row |-> to_row(cv.obj), ok |-> TRUE]
                 /\ cv.state = "Removed" =>
                      /\ nUpd = 0 /\ nDel = 1
                      /\ \E i \in DOMAIN calls' :
                           calls'[i].op = "delete_row" /\ calls'[i].id = id
                           /\ calls'[i].ty = cv.obj.ty /\ calls'[i].ok
        /\ \A i \in DOMAIN calls' : IsFlush(calls'[i]) => calls'[i].id \in DOMAIN cache
      ]_vars

\* a commit succeeded that wrote one object back and deleted another
C1_Witness ==
    /\ last.op = "commit" /\ last.res = "ok"
    /\ \E i, j \in DOMAIN calls : calls[i].op = "update_row" /\ calls[j].op = "delete_row"

\* C2: commit ordering and abort.  The storage interface's commit is invoked
\* at most once, as the last call and only after the flush call of every
\* non-Clean cache entry has returned Ok; when an update_row or delete_row
\* fails, commit() returns the error, that call is the last one issued, commit
\* is not invoked and the committed image is unchanged.
C2_CommitOrdering ==
    [][last'.op = "commit" =>
        LET cs == calls'
            need == {id \in DOMAIN cache : heap[cache[id]].state # "Clean"}
        IN  /\ Cardinality({i \in DOMAIN cs : cs[i].op = "commit"}) <= 1
            /\ \A i \in DOMAIN cs : cs[i].op = "commit" =>
                 /\ i = Len(cs)
                 /\ \A j \in 1..(i - 1) : IsFlush(cs[j]) /\ cs[j].ok
                 /\ \A id \in need : \E j \in 1..(i - 1) : cs[j].id = id
            /\ \A i \in DOMAIN cs : (IsFlush(cs[i]) /\ ~cs[i].ok) =>
                 /\ i = Len(cs)
                 /\ last'.res # "ok"
                 /\ committed' = committed
            /\ last'.res = "ok" <=> (cs # <<>> /\ cs[Len(cs)] = CommitCall(TRUE))
            /\ last'.res # "ok" => committed' = committed
      ]_vars

\* a commit whose second flush call failed: nothing followed it and the
\* first call's effect stayed uncommitted
C2_Witness ==
    /\ last.op = "commit" /\ last.res # "ok"
    /\ Len(calls) = 2
    /\ IsFlush(calls[1]) /\ calls[1].ok
    /\ IsFlush(calls[2]) /\ ~calls[2].ok
    /\ db # committed

\* C3: identity map.  A successful get(id) returns a handle bound to the same
\* cache entry as every handle an earlier create or get returned for that
\* identifier in this transaction, unless that entry was deleted since; the
\* handles then read the same value and the same tag.
C3_IdentityMap ==
    [][(last'.op = "get" /\ last'.res = "ok") =>
        \A h \in BagToSet(handles) :
            (h.id = last'.id /\ heap[h.data].state # "Removed") =>
                /\ h.data = last'.e
                /\ heap'[h.data] = heap'[last'.e]
      ]_vars

\* the identifiers bound to entries, by the cache and by the live handles
Bindings == {<<i, cache[i]>> : i \in DOMAIN cache}
            \cup {<<h.id, h.data>> : h \in BagToSet(handles)}

\* C4: at most one live entry per object identifier: in every reachable
\* state no two entries reachable from the cache or from a live handle are
\* bound to the same identifier.
C4_OneEntryPerId ==
    \A b1, b2 \in Bindings : b1[1] = b2[1] => b1[2] = b2[2]

\* C5: a successful create, and a successful get of an identifier not in the
\* cache, allocate exactly one new entry, bind the returned / requested
\* identifier to it in the cache, leave every other key as it was, tag the
\* entry Clean, and return a handle to it, whose state() is therefore Clean.
C5_NewEntryClean ==
    [][(last'.res = "ok" /\ (last'.op = "create" \/ (last'.op = "get" /\ last'.id \notin DOMAIN cache))) =>
        LET e == last'.e
            id == last'.id
        IN  /\ e \notin DOMAIN heap
            /\ (DOMAIN heap') \ (DOMAIN heap) = {e}
            /\ DOMAIN cache' = DOMAIN cache \cup {id}
            /\ cache'[id] = e
            /\ \A j \in DOMAIN cache : j # id => cache'[j] = cache[j]
            /\ heap'[e].state = "Clean"
            /\ heap'[e].obj.ty = last'.ty
            /\ handles' = handles (+) SetToBag({Handle(id, e, last'.ty)})
            /\ ~(\E g \in BagToSet(guards') : g.h.data = e)
      ]_vars

\* get loaded a row from storage into a new Clean entry
C5_Witness ==
    /\ last.op = "get" /\ last.res = "ok"
    /\ \E i \in DOMAIN calls : calls[i].op = "select_row" /\ calls[i].ok
    /\ heap[last.e].state = "Clean"
    /\ BagIn(Handle(last.id, last.e, last.ty), handles)

\* C6: a successful mutate-borrow leaves the entry tagged Modified whether or
\* not the caller writes through the view, and an entry so tagged is written
\* back at commit: a successful commit issues update_row with the entry's
\* schema and value for every live entry tagged Modified.
C6_MutateBorrowWrittenBack ==
    [][/\ (last'.op = "borrow_mut" /\ last'.res = "ok") =>
            heap'[last'.e].state = "Modified"
       /\ (last'.op = "commit" /\ last'.res = "ok") =>
            \A e \in DOMAIN heap : heap[e].state = "Modified" =>
                \E i \in DOMAIN calls' :
                    /\ calls'[i].op = "update_row"
                    /\ calls'[i].ty = heap[e].obj.ty
                    /\ calls'[i].row = to_row(heap[e].obj)
                    /\ <<calls'[i].id, e>> \in Bindings
      ]_vars

\* C7: delete() on a handle whose entry is not borrowed tags the entry
\* Removed whatever its tag was, leaves the cache mapping and the entry's
\* value as they were (a tombstone), and every other handle on the entry can
\* read the tag and reads Removed.
C7_DeleteTombstone ==
    [][(last'.op = "delete" /\ ~Borrowed(last'.e)) =>
        LET e == last'.e IN
        /\ last'.res = "ok"
        /\ cache' = cache
        /\ \A i \in DOMAIN cache : cache[i] = e => e \in DOMAIN heap'
        /\ e \in DOMAIN heap' =>
             /\ heap'[e].state = "Removed"
             /\ heap'[e].obj = heap[e].obj
        /\ \A h \in BagToSet(handles') : h.data = e =>
             /\ ~(\E g \in BagToSet(guards') : g.h.data = e /\ g.mut)
             /\ heap'[h.data].state = "Removed"
      ]_vars

\* a Modified entry was deleted through one handle, it is still the cache's
\* entry for its identifier, and another handle on it reads Removed
C7_Witness ==
    /\ last.op = "delete" /\ last.res = "ok"
    /\ last.id \in DOMAIN cache /\ cache[last.id] = last.e
    /\ \E h \in BagToSet(handles) : h.data = last.e /\ heap[h.data].state = "Removed"

\* C8: get(id) on an identifier whose cache entry is tagged Removed fails with
\* NotFound for that identifier, calls no storage operation and changes
\* neither the cache nor its entries, although the row is still in storage.
C8_GetRemovedNotFound ==
    [][(last'.op = "get" /\ last'.id \in DOMAIN cache
            /\ heap[cache[last'.id]].state = "Removed") =>
        /\ last'.res = "NotFound"
        /\ calls' = <<>>
        /\ cache' = cache
        /\ heap' = heap
        /\ handles' = handles
        /\ db' = db
      ]_vars

\* get failed on a tombstone while storage still holds the row
C8_Witness ==
    /\ last.op = "get" /\ last.res = "NotFound"
    /\ calls = <<>>
    /\ last.id \in DOMAIN cache /\ heap[cache[last.id]].state = "Removed"
    /\ select_found(db, last.id, heap[cache[last.id]].obj.ty)

\* C9: get(id) for an identifier that has a non-Removed cache entry returns a
\* handle to that entry, calls no storage operation and leaves the entry's
\* tag and value unchanged.
C9_GetCachedNoStorage ==
    [][(last'.op = "get" /\ last'.id \in DOMAIN cache
            /\ heap[cache[last'.id]].state # "Removed") =>
        /\ last'.res = "ok"
        /\ last'.e = cache[last'.id]
        /\ BagIn(Handle(last'.id, cache[last'.id], last'.ty), handles')
        /\ calls' = <<>>
        /\ cache' = cache
        /\ heap' = heap
        /\ db' = db
      ]_vars

\* C10: rollback() calls only the storage interface's rollback (no
\* update_row, delete_row or commit), and the committed image is what it was
\* when the transaction began: no step of a transaction other than commit
\* changes it, so a later transaction reads the rows as they were.
C10_RollbackNoWriteBack ==
    [][/\ last'.op = "rollback" =>
            /\ Len(calls') = 1
            /\ calls'[1].op = "rollback"
            /\ committed' = committed
       /\ last'.op # "commit" => committed' = committed
       /\ last'.op = "begin" => db' = committed
      ]_vars

\* a transaction that had created, changed or deleted rows was rolled back:
\* its image differs from the committed one, which a second transaction reads
C10_Witness ==
    /\ last.op = "rollback"
    /\ db # committed
    /\ \E t \in Types : db.rows[t] # committed.rows[t]
    /\ txCount < MaxTx

\* what get(id) of type t returns in a new transaction that starts from the
\* image d: whether the row is found, and the entry it is loaded into
NewTxFound(d, t, id) == select_found(d, id, t)
NewTxEntry(d, t, id) == NewCacheValue(from_row(t, select_row(d, id, t)))

\* C11: durability.  After a successful commit, a new transaction's get finds
\* every object that a handle or the cache of the committed transaction held
\* and that was not deleted, as a Clean entry with the value the object had
\* at commit time, and fails with NotFound for every object deleted in it.
C11_Durability ==
    [][(last'.op = "commit" /\ last'.res = "ok") =>
        \A b \in Bindings :
            LET id == b[1]
                cv == heap[b[2]]
                t == cv.obj.ty
            IN  IF cv.state = "Removed"
                THEN ~NewTxFound(committed', t, id)
                ELSE /\ NewTxFound(committed', t, id)
                     /\ NewTxEntry(committed', t, id) = [state |-> "Clean", obj |-> cv.obj]
      ]_vars

\* C12: a create or a get that returns an error (a failed table_exists,
\* create_table, insert_row or select_row, NotFound included) leaves the
\* cache mapping, its entries and their tags exactly as they were.
C12_FailedCallKeepsCache ==
    [][(last'.op \in {"create", "get"} /\ last'.res \in ErrKinds \cup {"NotFound"}) =>
        /\ cache' = cache
        /\ heap' = heap
        /\ handles' = handles
      ]_vars

\* a get went to storage, found no row and failed, with an entry in the cache
C12_Witness ==
    /\ last.op = "get" /\ last.res = "NotFound"
    /\ calls # <<>>
    /\ cache # EmptyCache

Tags == {"Clean", "Modified", "Removed"}

\* C13: state() is infallible: in every reachable state, a read or mutable
\* borrow of the entry outstanding or not, it returns the entry's current
\* tag and never fails.
C13_StateInfallible ==
    last.op = "state" => (last.res \in Tags /\ last.res = heap[last.e].state)

\* C14: a read-borrow or a mutate-borrow through any handle whose entry is
\* tagged Removed fails fatally and hands out no view, whichever handle or
\* clone the delete went through.
C14_RemovedBorrowFails ==
    [][(last'.op \in {"borrow", "borrow_mut"} /\ heap[last'.e].state = "Removed") =>
        /\ last'.res = "panic"
        /\ guards' = guards
        /\ heap' = heap
      ]_vars

\* a read-borrow through a surviving handle of a deleted entry has failed
C14_Witness ==
    /\ last.op = "borrow" /\ last.res = "panic"
    /\ heap[last.e].state = "Removed"
    /\ guards = EmptyBag

\* C15: delete() of an entry whose mutable borrow is outstanding through
\* another handle fails fatally, and the entry's tag and value are what they
\* were: it is not tagged Removed.
C15_DeleteUnderWriterFails ==
    [][(last'.op = "delete" /\ Writer(last'.e)) =>
        /\ last'.res = "panic"
        /\ heap' = heap
        /\ heap'[last'.e].state # "Removed"
        /\ guards' = guards
      ]_vars

\* a delete has failed on an entry with an outstanding mutable borrow
C15_Witness ==
    /\ last.op = "delete" /\ last.res = "panic"
    /\ \E g \in BagToSet(guards) : g.mut /\ g.h.data = last.e
    /\ heap[last.e].state = "Modified"

\* outstanding borrows of entry e in gs, mutable (m) or read
NumGuards(gs, e, m) ==
    LET S == {g \in BagToSet(gs) : g.h.data = e /\ g.mut = m}
    IN  IF S = {} THEN 0 ELSE BagCardinality([g \in S |-> gs[g]])

\* C16: single writer or multiple readers.  Every entry has at most one
\* outstanding mutable borrow and then no read borrow; a read- or
\* mutate-borrow attempted under a mutable borrow, and a mutate-borrow
\* attempted under a read borrow, fails fatally and hands out no view.
C16_SingleWriter ==
    [][/\ \A g \in BagToSet(guards') :
            /\ NumGuards(guards', g.h.data, TRUE) <= 1
            /\ NumGuards(guards', g.h.data, TRUE) = 1 => NumGuards(guards', g.h.data, FALSE) = 0
       /\ (last'.op \in {"borrow", "borrow_mut"} /\ NumGuards(guards, last'.e, TRUE) > 0) =>
            (last'.res = "panic" /\ guards' = guards)
       /\ (last'.op = "borrow_mut" /\ NumGuards(guards, last'.e, FALSE) > 0) =>
            (last'.res = "panic" /\ guards' = guards)
      ]_vars

\* a mutate-borrow has failed on a live entry that two read borrows hold
C16_Witness ==
    /\ last.op = "borrow_mut" /\ last.res = "panic"
    /\ NumGuards(guards, last.e, FALSE) = 2
    /\ heap[last.e].state # "Removed"

\* C17: handles are a complete mutation path.  After a successful commit,
\* every object held by the cache or by a handle that was mutate-borrowed and
\* not deleted has had an update_row issued for its identifier and schema
\* with its final value, and every deleted one a delete_row for its
\* identifier and schema, over one or several object types.
C17_NoMutationDropped ==
    [][(last'.op = "commit" /\ last'.res = "ok") =>
        \A b \in Bindings :
            LET id == b[1]
                cv == heap[b[2]]
            IN  /\ cv.state = "Modified" =>
                     \E i \in DOMAIN calls' :
                         calls'[i] = Call("update_row", cv.obj.ty, id, to_row(cv.obj), TRUE)
                /\ cv.state = "Removed" =>
                     \E i \in DOMAIN calls' :
                         /\ calls'[i].op = "delete_row"
                         /\ calls'[i].ty = cv.obj.ty
                         /\ calls'[i].id = id
      ]_vars

\* C18: get(id) never fails fatally: every failure of get is an error result,
\* in every reachable state, a mutable borrow of the entry outstanding or not.
C18_GetNeverPanics ==
    last.op = "get" => last.res \in {"ok", "NotFound"} \cup ErrKinds

\* C19: table auto-creation ordering.  A create and a get of an identifier
\* not in the cache call table_exists first and once, create_table exactly
\* when table_exists reported the table absent, and insert_row / select_row
\* last and only once the table is known to exist; when table_exists or
\* create_table fails, no insert_row or select_row is issued and the error is
\* returned.
C19_TableAutoCreation ==
    [][(last'.op = "create" \/ (last'.op = "get" /\ last'.id \notin DOMAIN cache)) =>
        LET cs == calls'
            t == last'.ty
            rowOps == {i \in DOMAIN cs : cs[i].op \in {"insert_row", "select_row"}}
            ensureOps == {i \in DOMAIN cs : cs[i].op \in {"table_exists", "create_table"}}
        IN  /\ Len(cs) >= 1
            /\ \A i \in DOMAIN cs : cs[i].ty = t
            /\ \A i \in DOMAIN cs : cs[i].op = "table_exists" <=> i = 1
            /\ \A i \in DOMAIN cs : cs[i].op = "create_table" => i = 2
            /\ (\E i \in DOMAIN cs : cs[i].op = "create_table")
                  <=> (cs[1].ok /\ ~table_exists(db, t))
            /\ \A i \in rowOps :
                  /\ i = Len(cs)
                  /\ \A j \in 1..(i - 1) : cs[j].ok
                  /\ table_exists(db, t) \/ (cs[2].op = "create_table" /\ cs[2].ok)
                  /\ cs[i].op = (IF last'.op = "create" THEN "insert_row" ELSE "select_row")
            /\ (\E i \in ensureOps : ~cs[i].ok) => (rowOps = {} /\ last'.res \in ErrKinds)
            /\ (\A i \in ensureOps : cs[i].ok) => rowOps # {}
      ]_vars

\* a create found the table absent, created it and inserted the row
C19_Witness ==
    /\ last.op = "create" /\ last.res = "ok"
    /\ Len(calls) = 3
    /\ calls[2].op = "create_table" /\ calls[2].ok
    /\ calls[3].op = "insert_row" /\ calls[3].ok

\* the order Clean < Modified < Removed
Rank(tag) == CASE tag = "Clean" -> 0 [] tag = "Modified" -> 1 [] tag = "Removed" -> 2

\* every entry that lives through the step keeps or advances its tag
TagForward ==
    \A e \in (DOMAIN heap) \cap (DOMAIN heap') :
        Rank(heap'[e].state) >= Rank(heap[e].state)

\* C20: the tag of an entry only moves forward, Clean < Modified < Removed: no
\* operation takes a Modified entry back to Clean or a Removed one back to
\* Clean or Modified; consequently an entry that was modified and then
\* deleted gets a delete_row and no update_row at a successful commit.
C20_TagMonotone ==
    [][/\ TagForward
       /\ (last'.op = "commit" /\ last'.res = "ok") =>
            \A b \in Bindings : heap[b[2]].state = "Removed" =>
                LET id == b[1]
                    t == heap[b[2]].obj.ty
                IN  /\ \E i \in DOMAIN calls' :
                         calls'[i].op = "delete_row" /\ calls'[i].ty = t /\ calls'[i].id = id
                    /\ \A i \in DOMAIN calls' :
                         ~(calls'[i].op = "update_row" /\ calls'[i].ty = t /\ calls'[i].id = id)
      ]_vars

\* the first half of C20 on its own
C20_TagForwardOnly == [][TagForward]_vars

\* the operations on a handle and on the views it hands out
HandleOps == {"id", "state", "borrow", "borrow_mut", "delete", "clone",
              "drop", "write", "release"}

\* C21: write-back is deferred to commit.  No operation on a handle calls the
\* storage interface or changes the storage image; update_row and delete_row
\* are issued by commit only; and until the transaction is closed every row
\* in storage stays as create / get left it.
C21_WriteBackDeferred ==
    [][/\ last'.op \in HandleOps =>
            (calls' = <<>> /\ db' = db /\ committed' = committed)
       /\ (\E i \in DOMAIN calls' : IsFlush(calls'[i])) => last'.op = "commit"
       /\ last'.op \in {"create", "get"} =>
            \A t \in Types : \A id \in DOMAIN db.rows[t] :
                id \in DOMAIN db'.rows[t] /\ db'.rows[t][id] = db.rows[t][id]
      ]_vars

\* a delete through a handle has tagged the entry Removed, called nothing,
\* and the row is still in storage
C21_Witness ==
    /\ last.op = "delete" /\ last.res = "ok"
    /\ calls = <<>>
    /\ \E id \in DOMAIN cache :
          /\ heap[cache[id]].state = "Removed"
          /\ select_found(db, id, heap[cache[id]].obj.ty)

C22_NamedCasesOnly ==
    [][(last'.op = "borrow_mut" /\ last'.res = "panic"
            /\ (Borrowed(last'.e) \/ heap[last'.e].state = "Removed")) =>
        /\ heap'[last'.e] = heap[last'.e]
        /\ guards' = guards
      ]_vars

====
